---- MODULE Spec2Model ----
(***************************************************************************)
(* Model of wordfence/cli/scan/progress.py: the box hierarchy, the greedy  *)
(* row-packing BoxLayout, and the ProgressDisplay controller with its      *)
(* registry of live displays and the asynchronous SIGWINCH flag.           *)
(*                                                                         *)
(* SpecLayout drives one BoxLayout with an arbitrary ordered content list. *)
(* Spec drives the ProgressDisplay controller, the terminal and curses.    *)
(***************************************************************************)
EXTENDS Integers, Sequences, FiniteSets, TLC

VARIABLES
    lay,        \* SpecLayout: the BoxLayout object
    bxs,        \* SpecLayout: the boxes of that layout, by index
    lres,       \* SpecLayout: outcome of the last BoxLayout call (history)
    scan,       \* what the process scans with: worker count, welcome banner
    term,       \* the terminal's size, what os.get_terminal_size() returns
    winch,      \* a SIGWINCH has been generated and not yet delivered
    surface,    \* the size of the curses surface (initscr, resizeterm)
    mode,       \* "normal" or "curses": the terminal's mode
    displays,   \* _displays, the registry of live displays
    disp,       \* the ProgressDisplay objects, by identity
    pc,         \* where the main control flow is, with its locals
    out,        \* how the last call of the main control flow ended (history)
    svc,        \* the steps of the last resize servicing (history)
    cursor,     \* the display whose log end stdscr's cursor is on, or 0
    mx,         \* SpecMetrics: box.metrics of each metric box, in order
    upd,        \* SpecMetrics: the ScanProgressUpdate last handled (history)
    drawn,      \* SpecLog: what LogBox.draw_content drew last
    added       \* SpecLog: the messages passed to add_message (history)

lvars == <<lay, bxs, lres>>
dvars == <<scan, term, winch, surface, mode, displays, disp, pc, out, svc,
          cursor>>
xvars == <<mx, upd, drawn, added>>
vars == <<lay, bxs, lres, scan, term, winch, surface, mode, displays, disp, pc, out,
          svc, cursor, mx, upd, drawn, added>>

(***************************************************************************)
(* Program constants                                                       *)
(***************************************************************************)
METRIC_BOX_WIDTH == 39
DEFAULT_MAX_MESSAGES == 512
METRICS_PADDING == 1
METRICS_COUNT == 5

\* The labels of the list _get_metrics builds, in its order
MetricLabels ==
    <<"Files Processed", "Bytes Processed", "Matches Found",
      "Files / Second", "Bytes / Second">>

(***************************************************************************)
(* Bounds of the model                                                     *)
(***************************************************************************)
MaxItems == 4          \* entries (boxes and breaks) of a SpecLayout content list

(***************************************************************************)
(* Python arithmetic                                                       *)
(***************************************************************************)
\* The element of a singleton set
Only(S) == CHOOSE x \in S : TRUE

Max2(a, b) == IF a >= b THEN a ELSE b

\* int(num / den) for den > 0: truncation toward zero
PyIntDiv(num, den) ==
    IF num >= 0 THEN num \div den ELSE -((-num) \div den)

\* round(d / 2): Python 3 rounds halves to the even neighbour
PyRoundHalf(d) ==
    IF d % 2 = 0 THEN d \div 2
    ELSE LET k == (d - 1) \div 2 IN IF k % 2 = 0 THEN k ELSE k + 1

(***************************************************************************)
(* Exceptions.  "" is normal return; the three sizing errors are the       *)
(* ProgressException messages raised by the layout code.                   *)
(***************************************************************************)
NoError == ""
InsufficientColumns == "ProgressException: Insufficient columns available"
InsufficientLines == "ProgressException: Insufficient lines available"
InsufficientLogSpace ==
    "ProgressException: Insufficient space available to display log messages"
MoveError == "ValueError: error moving window"
CursesError == "curses.error"
SizingErrors == {InsufficientColumns, InsufficientLines, InsufficientLogSpace}

(***************************************************************************)
(* Box hierarchy.  One record shape for the three kinds; a field a kind    *)
(* does not have stays at its zero.  position and last_size are <<>> for   *)
(* Python's None.                                                          *)
(***************************************************************************)
Box(kind, border) ==
    [kind |-> kind, border |-> border,
     metrics |-> 0,                          \* MetricBox: len(self.metrics)
     row_count |-> 0, column_count |-> 0,    \* BannerBox: the banner's counts
     columns |-> 0, lines |-> 0,             \* LogBox
     messages |-> <<>>, maxlen |-> 0,        \* LogBox: the deque
     window |-> FALSE, position |-> <<>>, last_size |-> <<>>]

MetricBox(nmetrics) == [Box("metric", TRUE) EXCEPT !.metrics = nmetrics]

BannerBox(rows, cols) ==
    [Box("banner", FALSE) EXCEPT !.row_count = rows, !.column_count = cols]

\* LogBox.__init__ with max_messages left at its default of 0
\* deque(maxlen=None): no limit
Unbounded == 0 - 1

\* LogBox._determine_max_messages
determine_max_messages(lines, max_messages) ==
    IF max_messages < 0 THEN Unbounded
    ELSE IF max_messages = 0 THEN Max2(lines, DEFAULT_MAX_MESSAGES)
    ELSE max_messages

LogBox(columns, lines, max_messages) ==
    [Box("log", TRUE) EXCEPT !.columns = columns, !.lines = lines,
                             !.maxlen = determine_max_messages(lines, max_messages)]

get_width(b) ==
    CASE b.kind = "metric" -> METRIC_BOX_WIDTH
      [] b.kind = "banner" -> b.column_count
      [] b.kind = "log" -> b.columns

get_height(b) ==
    CASE b.kind = "metric" -> b.metrics
      [] b.kind = "banner" -> b.row_count
      [] b.kind = "log" -> b.lines

\* compute_size that leaves the border out
compute_sizeNoBorder(b) == <<get_height(b), get_width(b)>>

\* <<height, width>>, borders included
compute_size(b) ==
    IF b.border THEN <<get_height(b) + 2, get_width(b) + 2>>
    ELSE <<get_height(b), get_width(b)>>

\* Box.resize_for_layout / LogBox.resize_for_layout: [box, err]
\* resize_for_layout that also discards the messages the new budget cannot show
resize_for_layoutTrim(b, properties) ==
    IF b.kind = "log"
    THEN LET lines == properties.lines - properties.current_line - 2
             nb == [b EXCEPT !.columns = properties.max_row_width - 2,
                             !.lines = lines,
                             !.messages =
                                 IF Len(@) > Max2(lines, 0)
                                 THEN SubSeq(@, Len(@) - Max2(lines, 0) + 1, Len(@))
                                 ELSE @]
         IN [box |-> nb,
             err |-> IF nb.lines < 3 THEN InsufficientLogSpace ELSE NoError]
    ELSE [box |-> b, err |-> NoError]

\* resize_for_layout that accepts any number of lines
resize_for_layoutNoCheck(b, properties) ==
    IF b.kind = "log"
    THEN [box |-> [b EXCEPT !.columns = properties.max_row_width - 2,
                            !.lines = properties.lines
                                      - properties.current_line - 2],
          err |-> NoError]
    ELSE [box |-> b, err |-> NoError]

resize_for_layout(b, properties) ==
    IF b.kind = "log"
    THEN LET nb == [b EXCEPT !.columns = properties.max_row_width - 2,
                             !.lines = properties.lines
                                       - properties.current_line - 2]
         IN [box |-> nb,
             err |-> IF nb.lines < 3 THEN InsufficientLogSpace ELSE NoError]
    ELSE [box |-> b, err |-> NoError]

\* Box.set_position with Box._initialize_window: [box, err].  `fails` is the
\* outcome of the curses calls (newwin/subwin, or mvderwin/mvwin).
set_position(b, y, x, fails) ==
    LET sized == [b EXCEPT !.last_size = compute_size(b)]
    IN IF ~b.window
       THEN IF fails THEN [box |-> sized, err |-> CursesError]
            ELSE [box |-> [sized EXCEPT !.window = TRUE, !.position = <<y, x>>],
                  err |-> NoError]
       ELSE IF fails THEN [box |-> sized, err |-> MoveError]
            ELSE [box |-> [sized EXCEPT !.position = <<y, x>>],
                  err |-> NoError]

(***************************************************************************)
(* BoxLayout.  content and unpositioned hold box indices; 0 is the row     *)
(* break (None).                                                           *)
(***************************************************************************)
Break == 0

BoxLayout(lines, cols, padding) ==
    [lines |-> lines, cols |-> cols, padding |-> padding, current_line |-> 0,
     content |-> <<>>, unpositioned |-> <<>>, max_row_width |-> 0]

add_box(L, box) ==
    [L EXCEPT !.content = Append(@, box), !.unpositioned = Append(@, box)]

add_break(L) ==
    [L EXCEPT !.content = Append(@, Break), !.unpositioned = Append(@, Break)]

get_layout_properties(L) ==
    [lines |-> L.lines, current_line |-> L.current_line,
     max_row_width |-> L.max_row_width]

\* FillStep without the raise of line 388: a box wider than the layout is
\* taken into the row as it is
FillStepClips(L, acc, id) ==
    LET rl == resize_for_layout(acc.boxes[id], get_layout_properties(L))
        size == compute_size(rl.box)
        nb == [rl.box EXCEPT !.last_size = size]
        required_width == size[2] + L.padding
    IN IF rl.err # NoError
       THEN [acc EXCEPT !.boxes[id] = rl.box, !.err = rl.err]
       ELSE IF Len(acc.positioned) > 0
               /\ (Len(acc.extra) > 0
                   \/ acc.row_width + required_width > L.cols)
       THEN [acc EXCEPT !.boxes[id] = nb, !.extra = Append(@, id)]
       ELSE [acc EXCEPT !.boxes[id] = nb,
                        !.row_width = @ + required_width,
                        !.unpadded_row_width = @ + size[2],
                        !.row_height = Max2(@, size[1]),
                        !.positioned = Append(@, <<id, size[1], size[2]>>)]

\* FillStep without the `len(extra)` test of line 382: a box that fits joins
\* the row although an earlier one has overflowed
FillStepFirstFit(L, acc, id) ==
    LET rl == resize_for_layout(acc.boxes[id], get_layout_properties(L))
        size == compute_size(rl.box)
        nb == [rl.box EXCEPT !.last_size = size]
        required_width == size[2] + L.padding
    IN IF rl.err # NoError
       THEN [acc EXCEPT !.boxes[id] = rl.box, !.err = rl.err]
       ELSE IF Len(acc.positioned) > 0
               /\ acc.row_width + required_width > L.cols
       THEN [acc EXCEPT !.boxes[id] = nb, !.extra = Append(@, id)]
       ELSE IF acc.row_width + required_width > L.cols
       THEN [acc EXCEPT !.boxes[id] = nb,
                        !.row_width = @ + required_width,
                        !.err = InsufficientColumns]
       ELSE [acc EXCEPT !.boxes[id] = nb,
                        !.row_width = @ + required_width,
                        !.unpadded_row_width = @ + size[2],
                        !.row_height = Max2(@, size[1]),
                        !.positioned = Append(@, <<id, size[1], size[2]>>)]

\* One iteration of the first loop of _position_row (lines 377-392) for the
\* box with index id.  acc carries the loop's locals and the boxes.
FillStep(L, acc, id) ==
    LET rl == resize_for_layout(acc.boxes[id], get_layout_properties(L))
        size == compute_size(rl.box)
        height == size[1]
        width == size[2]
        nb == [rl.box EXCEPT !.last_size = size]
        required_width == width + L.padding
    IN IF rl.err # NoError
       THEN [acc EXCEPT !.boxes[id] = rl.box, !.err = rl.err]
       ELSE IF Len(acc.positioned) > 0
               /\ (Len(acc.extra) > 0
                   \/ acc.row_width + required_width > L.cols)
       THEN [acc EXCEPT !.boxes[id] = nb, !.extra = Append(@, id)]
       ELSE IF acc.row_width + required_width > L.cols
       THEN [acc EXCEPT !.boxes[id] = nb,
                        !.row_width = @ + required_width,
                        !.err = InsufficientColumns]
       ELSE [acc EXCEPT !.boxes[id] = nb,
                        !.row_width = @ + required_width,
                        !.unpadded_row_width = @ + width,
                        !.row_height = Max2(@, height),
                        !.positioned = Append(@, <<id, height, width>>)]

RECURSIVE FillRow(_, _, _)
FillRow(L, acc, row) ==
    IF row = <<>> \/ acc.err # NoError THEN acc
    ELSE Only({FillRow(L, a, Tail(row)) : a \in {FillStep(L, acc, Head(row))}})

\* PlaceStep with `x += padding` for `x += width + padding`
PlaceStepNoAdvance(L, acc, entry, row_height, padding, failAt) ==
    LET id == entry[1]
        height == entry[2]
        width == entry[3]
        y == L.current_line + PyRoundHalf(row_height - height)
        sp == set_position(acc.boxes[id], y, acc.x, acc.calls + 1 = failAt)
    IN IF sp.err # NoError
       THEN [acc EXCEPT !.boxes[id] = sp.box, !.calls = @ + 1,
                        !.final_row_width = @ + acc.previous_padding,
                        !.err = sp.err]
       ELSE [acc EXCEPT !.boxes[id] = sp.box, !.calls = @ + 1,
                        !.x = @ + padding,
                        !.final_row_width = @ + acc.previous_padding + width,
                        !.previous_padding = padding]

\* One iteration of the second loop of _position_row (lines 401-407).
\* The failAt-th set_position call of the whole position() run fails.
PlaceStep(L, acc, entry, row_height, padding, failAt) ==
    LET id == entry[1]
        height == entry[2]
        width == entry[3]
        y == L.current_line + PyRoundHalf(row_height - height)
        sp == set_position(acc.boxes[id], y, acc.x, acc.calls + 1 = failAt)
    IN IF sp.err # NoError
       THEN [acc EXCEPT !.boxes[id] = sp.box, !.calls = @ + 1,
                        !.final_row_width = @ + acc.previous_padding,
                        !.err = sp.err]
       ELSE [acc EXCEPT !.boxes[id] = sp.box, !.calls = @ + 1,
                        !.x = @ + width + padding,
                        !.final_row_width = @ + acc.previous_padding + width,
                        !.previous_padding = padding]

RECURSIVE PlaceRow(_, _, _, _, _, _)
PlaceRow(L, acc, positioned, row_height, padding, failAt) ==
    IF positioned = <<>> \/ acc.err # NoError THEN acc
    ELSE Only({PlaceRow(L, a, Tail(positioned), row_height, padding, failAt) :
                 a \in {PlaceStep(L, acc, Head(positioned), row_height,
                                  padding, failAt)}})

\* The padding between the boxes of a row and the x of its first box
\* (lines 395-398)
RowPadding(L, unpadded_row_width, box_count) ==
    PyIntDiv(L.cols - unpadded_row_width, box_count + 1)

RowStartX(L, unpadded_row_width, box_count) ==
    LET padding == RowPadding(L, unpadded_row_width, box_count)
        padded_width == unpadded_row_width + padding * (box_count + 1)
    IN padding + PyIntDiv(L.cols - padded_width, 2)

\* RowFitsLines that lets every row through
RowFitsLinesAlways(L, row_height) == TRUE

\* RowFitsLines without the row's height
RowFitsLinesCursorOnly(L, row_height) == ~(L.current_line > L.lines)

\* The vertical check of line 393
RowFitsLines(L, row_height) == ~(L.current_line + row_height > L.lines)

\* Lines 399-410 of _position_row, given the outcome `fill` of the first loop
PlaceFilled(L, fill, calls, failAt) ==
    LET box_count == Len(fill.positioned)
        padding == RowPadding(L, fill.unpadded_row_width, box_count)
    IN Only({
         IF place.err # NoError
         THEN [layout |-> L, boxes |-> place.boxes, extra |-> <<>>,
               calls |-> place.calls, err |-> place.err]
         ELSE [layout |-> [L EXCEPT
                             !.current_line = @ + fill.row_height + L.padding,
                             !.max_row_width = Max2(@, place.final_row_width)],
               boxes |-> place.boxes, extra |-> fill.extra,
               calls |-> place.calls, err |-> NoError] :
         place \in {PlaceRow(L,
                             [boxes |-> fill.boxes,
                              x |-> RowStartX(L, fill.unpadded_row_width,
                                              box_count),
                              final_row_width |-> 0, previous_padding |-> 0,
                              calls |-> calls, err |-> NoError],
                             fill.positioned, fill.row_height, padding,
                             failAt)}})

\* BoxLayout._position_row: [layout, boxes, extra, calls, err]
PositionRow(L, B, row, calls, failAt) ==
    Only({
      IF fill.err # NoError
      THEN [layout |-> L, boxes |-> fill.boxes, extra |-> <<>>,
            calls |-> calls, err |-> fill.err]
      ELSE IF ~RowFitsLines(L, fill.row_height)
      THEN [layout |-> L, boxes |-> fill.boxes, extra |-> <<>>,
            calls |-> calls, err |-> InsufficientLines]
      ELSE PlaceFilled(L, fill, calls, failAt) :
      fill \in {FillRow(L,
                        [boxes |-> B, positioned |-> <<>>, extra |-> <<>>,
                         row_width |-> 0, unpadded_row_width |-> 0,
                         row_height |-> 0, err |-> NoError],
                        row)}})

\* One call `row = self._position_row(row)` of BoxLayout.position
RowPass(st, failAt) ==
    Only({[layout |-> r.layout, boxes |-> r.boxes, row |-> r.extra,
           calls |-> r.calls, err |-> r.err] :
          r \in {PositionRow(st.layout, st.boxes, st.row, st.calls, failAt)}})

\* The for loop of BoxLayout.position (lines 415-419) over `items`
RECURSIVE PositionItems(_, _, _)
PositionItems(st, items, failAt) ==
    IF items = <<>> \/ st.err # NoError THEN st
    ELSE Only({PositionItems(n, Tail(items), failAt) :
                 n \in {IF Head(items) = Break
                        THEN RowPass(st, failAt)
                        ELSE [st EXCEPT !.row = Append(@, Head(items))]}})

\* The while loop of BoxLayout.position (lines 420-421)
RECURSIVE PositionRest(_, _)
PositionRest(st, failAt) ==
    IF st.row = <<>> \/ st.err # NoError THEN st
    ELSE Only({PositionRest(n, failAt) : n \in {RowPass(st, failAt)}})

\* BoxLayout.position: [layout, boxes, err].  _unpositioned is emptied only
\* when no row raised.
position(L, B, failAt) ==
    Only({[layout |-> IF st.err = NoError
                      THEN [st.layout EXCEPT !.unpositioned = <<>>]
                      ELSE st.layout,
           boxes |-> st.boxes, err |-> st.err] :
          st \in {Only({PositionRest(s1, failAt) :
                    s1 \in {PositionItems([layout |-> L, boxes |-> B,
                                           row |-> <<>>, calls |-> 0,
                                           err |-> NoError],
                                          L.unpositioned, failAt)}})}})

\* reset that keeps the vertical cursor
resetKeepsCursor(L) ==
    [L EXCEPT !.max_row_width = 0, !.unpositioned = L.content]

reset(L) ==
    [L EXCEPT !.current_line = 0, !.max_row_width = 0,
              !.unpositioned = L.content]

\* BoxLayout.resize: [layout, boxes, err]
resize(L, B, lines, cols, failAt) ==
    position(reset([L EXCEPT !.lines = lines, !.cols = cols]), B, failAt)

\* Box.update through Box._require_window: a box that has no window yet
\* gets one at (0, 0)
require_window(b) ==
    IF b.window THEN b
    ELSE [b EXCEPT !.window = TRUE, !.position = <<0, 0>>,
                   !.last_size = compute_size(b)]

update(b) == [require_window(b) EXCEPT !.last_size = compute_size(b)]

\* BoxLayout.update_content: the boxes after item.update() on each
update_content(L, B) ==
    [i \in DOMAIN B |->
        IF \E k \in DOMAIN L.content : L.content[k] = i
        THEN update(B[i]) ELSE B[i]]

(***************************************************************************)
(* ProgressDisplay: the objects and the terminal                           *)
(***************************************************************************)
Displays == {1, 2}                         \* identities of ProgressDisplay objects
TermSizes == {[lines |-> 16, columns |-> 90], [lines |-> 30, columns |-> 90],
              [lines |-> 30, columns |-> 60]}
NoSize == [lines |-> 0, columns |-> 0]
Banners == {<<>>, <<3, 20>>}               \* get_welcome_banner(): None or
                                           \* <<row_count, column_count>>
ProgressError == "ProgressException"

\* A ProgressDisplay that has not been constructed
NoDisplay ==
    [phase |-> "none", worker_count |-> 0, pending_resize |-> FALSE,
     terminal_size |-> NoSize, layout |-> BoxLayout(0, 0, 0), boxes |-> <<>>]

\* getch: -1 (no input), curses.KEY_RESIZE, or the key pressed
NoKey == "none"
Keys == {NoKey, "KEY_RESIZE", "key"}

Idle ==
    [op |-> "idle", d |-> 0, at |-> "", size |-> NoSize, smaller |-> FALSE,
     resized |-> FALSE, key |-> NoKey, exc |-> NoError, msg |-> ""]

NoOutcome == [op |-> "", d |-> 0, exc |-> NoError, cause |-> NoError,
              msg |-> "", key |-> NoKey]

NoService == [d |-> 0, old_columns |-> 0, new_columns |-> 0, trace |-> <<>>,
              fitted |-> FALSE, complete |-> FALSE]

\* The display variables while SpecLayout runs, and the layout variables
\* while Spec runs
DParked ==
    /\ scan = [worker_count |-> 0, banner |-> <<>>]
    /\ term = NoSize /\ winch = FALSE /\ surface = NoSize /\ mode = "normal"
    /\ displays = <<>> /\ disp = [d \in Displays |-> NoDisplay]
    /\ pc = Idle /\ out = NoOutcome /\ svc = NoService /\ cursor = 0

LParked ==
    /\ lay = BoxLayout(0, 0, 0) /\ bxs = <<>>
    /\ lres = [op |-> "init", err |-> NoError, repeat |-> FALSE]

NoUpdate == [elapsed_time |-> [m |-> 0, e |-> 0], counts |-> 0, bytes |-> 0,
             matches |-> 0]

XParked == mx = <<>> /\ upd = NoUpdate /\ drawn = <<>> /\ added = <<>>

(***************************************************************************)
(* ProgressDisplay: the operations on the registry and the objects         *)
(***************************************************************************)
InList(ds, d) == \E i \in DOMAIN ds : ds[i] = d

\* list.remove(d) on a list that holds d: the first occurrence goes
RemoveFirst(ds, d) ==
    LET k == CHOOSE i \in DOMAIN ds :
                 ds[i] = d /\ \A j \in 1..(i - 1) : ds[j] # d
    IN SubSeq(ds, 1, k - 1) \o SubSeq(ds, k + 1, Len(ds))

\* end that returns before endwin when the display is not registered
endGuarded(w, d) ==
    IF InList(w.displays, d)
    THEN [w EXCEPT !.mode = "normal", !.disp[d].phase = "ended",
                   !.displays = RemoveFirst(@, d)]
    ELSE w

\* ProgressDisplay.end on the world w = [mode, displays, disp, err]:
\* curses.endwin(), then _displays.remove(self), a ValueError when absent
end(w, d) ==
    IF InList(w.displays, d)
    THEN [w EXCEPT !.mode = "normal", !.disp[d].phase = "ended",
                   !.displays = RemoveFirst(@, d)]
    ELSE [w EXCEPT !.mode = "normal", !.disp[d].phase = "ended",
                   !.err = "ValueError"]

\* The for loop of reset_terminal: the list iterator holds an index into
\* _displays, and every display.end() removes from that same list
RECURSIVE ResetLoop(_, _)
ResetLoop(w, i) ==
    IF i > Len(w.displays) \/ w.err # NoError THEN w
    ELSE Only({ResetLoop(n, i + 1) : n \in {end(w, w.displays[i])}})

\* reset_terminal that restores nothing
reset_terminalNoop(w) == w

reset_terminal(w) == ResetLoop(w, 1)

\* queue_resize that also discards the layout's positions
queue_resizeAndReset(D) ==
    [D EXCEPT !.pending_resize = TRUE, !.layout = reset(D.layout)]

queue_resize(D) == [D EXCEPT !.pending_resize = TRUE]

\* resize_terminal(signalnum, frame): the SIGWINCH handler
resize_terminal(ds, dd) ==
    [d \in DOMAIN dd |-> IF InList(ds, d) THEN queue_resize(dd[d]) ELSE dd[d]]

\* `smaller` with <= for <
smallerOrEqual(size, terminal_size) == size.columns <= terminal_size.columns

\* line 590 of ProgressDisplay.resize
smaller(size, terminal_size) == size.columns < terminal_size.columns

\* The boxes ProgressDisplay._initialize_content builds, in layout order:
\* the banner if there is one, the summary and worker boxes, the log box
InitialBoxes(worker_count, banner) ==
    (IF banner = <<>> THEN <<>> ELSE <<BannerBox(banner[1], banner[2])>>)
    \o [i \in 1..(worker_count + 1) |-> MetricBox(Len(MetricLabels))]
    \o <<LogBox(10, 5, 0)>>

\* Lines 556-564 of ProgressDisplay._initialize_layout: the layout with its
\* content, before layout.position()
InitialLayout(size, worker_count, banner) ==
    LET nb == IF banner = <<>> THEN 0 ELSE 1
        items == (IF nb = 1 THEN <<1>> ELSE <<>>)
                 \o <<nb + 1, Break>>
                 \o [i \in 1..worker_count |-> nb + 1 + i]
                 \o <<Break, nb + worker_count + 2>>
    IN [BoxLayout(size.lines, size.columns, METRICS_PADDING)
          EXCEPT !.content = items, !.unpositioned = items]

\* LogBox.add_message: the deque drops its oldest entry at maxlen
\* A message is a sequence of characters; "^" stands for any control
\* character.  filter_control_characters removes them.
ControlCharacter == "^"

filter_control_characters(message) ==
    SelectSeq(message, LAMBDA c : c # ControlCharacter)

\* deque.append on a full deque that discards the newest element
add_messageKeepOldest(b, message) ==
    [b EXCEPT !.messages =
        IF b.maxlen # Unbounded /\ Len(@) >= b.maxlen
        THEN @ ELSE Append(@, filter_control_characters(message))]

\* LogBox.add_message, before self.update(): deque.append discards the
\* oldest element of a full deque
add_message(b, message) ==
    [b EXCEPT !.messages =
        IF b.maxlen # Unbounded /\ Len(@) >= b.maxlen
        THEN Append(Tail(@), filter_control_characters(message))
        ELSE Append(@, filter_control_characters(message))]

\* The main control flow is between two calls
Ready == pc = Idle /\ out = NoOutcome

World == [mode |-> mode, displays |-> displays, disp |-> disp,
          err |-> NoError]

Live(d) == disp[d].phase = "active" /\ InList(displays, d)

\* Which set_position call a curses failure hits: none, or the first
FailPoints == {0, 1}

\* An object no call reaches any more is forgotten: a display that is
\* ended, or that raised its fatal error, keeps only what end() and the
\* SIGWINCH handler touch
Forget(D) ==
    IF D.phase \in {"ended", "failed", "broken"}
    THEN [NoDisplay EXCEPT !.phase = D.phase,
                           !.pending_resize = D.pending_resize]
    ELSE D

(***************************************************************************)
(* SpecLayout: one BoxLayout, built and driven through its public methods. *)
(***************************************************************************)
LayoutLines == {12, 24}
LayoutCols == {40, 84}
BannerSizes == {<<3, 20>>}                \* <<row_count, column_count>>
Paddings == {0, 1}                        \* BoxLayout's padding argument

NewBoxes ==
    {MetricBox(Len(MetricLabels)), LogBox(10, 5, 0)}
    \cup {BannerBox(d[1], d[2]) : d \in BannerSizes}

LInit ==
    /\ \E lines \in LayoutLines, cols \in LayoutCols, padding \in Paddings :
          lay = BoxLayout(lines, cols, padding)
    /\ bxs = <<>>
    /\ lres = [op |-> "init", err |-> NoError, repeat |-> FALSE]
    /\ DParked /\ XParked

\* The content list is built first and positioned afterwards, as
\* ProgressDisplay._initialize_layout does.
Building == lres.op \in {"init", "add_box", "add_break"}

LAddBox ==
    /\ Building
    /\ Len(lay.content) < MaxItems
    /\ \E b \in NewBoxes :
          /\ bxs' = Append(bxs, b)
          /\ lay' = add_box(lay, Len(bxs) + 1)
    /\ lres' = [op |-> "add_box", err |-> NoError, repeat |-> FALSE]
    /\ UNCHANGED <<dvars, xvars>>

LAddBreak ==
    /\ Building
    /\ Len(lay.content) < MaxItems
    /\ lay' = add_break(lay)
    /\ bxs' = bxs
    /\ lres' = [op |-> "add_break", err |-> NoError, repeat |-> FALSE]
    /\ UNCHANGED <<dvars, xvars>>

\* A raise ends the use of the layout: ProgressDisplay tears the display
\* down on every error of layout.resize, and construction does not survive
\* an error of layout.position.
LPosition ==
    /\ lres.err = NoError
    /\ \E failAt \in 0..Len(bxs) :
       \E r \in {position(lay, bxs, failAt)} :
          /\ lay' = r.layout
          /\ bxs' = r.boxes
          /\ lres' = [op |-> "position", err |-> r.err, repeat |-> FALSE]
    /\ UNCHANGED <<dvars, xvars>>

LResize ==
    /\ lres.err = NoError
    /\ \E lines \in LayoutLines, cols \in LayoutCols, failAt \in 0..Len(bxs) :
       \E r \in {resize(lay, bxs, lines, cols, failAt)} :
          /\ lay' = r.layout
          /\ bxs' = r.boxes
          /\ lres' = [op |-> "resize", err |-> r.err,
                      repeat |-> /\ lres.op = "resize"
                                 /\ lres.err = NoError
                                 /\ lay.lines = lines
                                 /\ lay.cols = cols]
    /\ UNCHANGED <<dvars, xvars>>

LUpdateContent ==
    /\ lres.op \in {"position", "resize"}
    /\ lres.err = NoError
    /\ bxs' = update_content(lay, bxs)
    /\ lay' = lay
    /\ lres' = [op |-> "update_content", err |-> NoError, repeat |-> FALSE]
    /\ UNCHANGED <<dvars, xvars>>

LNext == LAddBox \/ LAddBreak \/ LPosition \/ LResize \/ LUpdateContent

SpecLayout == LInit /\ [][LNext]_vars

(***************************************************************************)
(* Spec: the ProgressDisplay controller.  One main control flow runs the   *)
(* calls on the displays, a call at a time; the terminal is resized and    *)
(* SIGWINCH is delivered between any two of its steps.                     *)
(***************************************************************************)
MaxWorkers == 1        \* worker_count ranges over 0..MaxWorkers
MaxMessages == 1       \* messages added to one LogBox

LogIndex(D) == Len(D.boxes)

\* The test of line 481 that takes KEY_RESIZE for a key pressed
real_keyResizeToo(key) == key # NoKey

\* The test of line 481: the key read ends the wait
real_key(key) == key # NoKey /\ key # "KEY_RESIZE"

\* ProgressDisplay._move_cursor_to_log_end: the outcomes of stdscr.move,
\* TRUE when the cursor is moved.  The position is inside the log box;
\* curses refuses one outside the surface, and the exception is ignored.
move_cursor_to_log_end(D, surf) ==
    LET b == D.boxes[LogIndex(D)]
    IN IF /\ b.position # <<>>
          /\ b.position[1] + compute_size(b)[1] <= surf.lines
          /\ b.position[2] + compute_size(b)[2] <= surf.columns
       THEN {TRUE}
       ELSE {TRUE, FALSE}

\* Where _resize_if_necessary returns to
After(op) == IF op = "handle_update" THEN "metrics" ELSE "sleep"

Init ==
    /\ scan \in [worker_count : 0..MaxWorkers, banner : Banners]
    /\ term \in TermSizes /\ winch = FALSE /\ surface = NoSize
    /\ mode = "normal" /\ displays = <<>>
    /\ disp = [d \in Displays |-> NoDisplay]
    /\ pc = Idle /\ out = NoOutcome /\ svc = NoService /\ cursor = 0
    /\ LParked /\ XParked

\* The user resizes the terminal; the OS raises SIGWINCH
TermResize ==
    /\ \E size \in TermSizes \ {term} : term' = size
    /\ winch' = TRUE
    /\ UNCHANGED <<scan, surface, mode, displays, disp, pc, out, svc>>
    /\ UNCHANGED cursor
    /\ UNCHANGED <<lvars, xvars>>

\* resize_terminal runs, at whatever point the main control flow is
Sigwinch ==
    /\ winch
    /\ winch' = FALSE
    /\ disp' = resize_terminal(displays, disp)
    /\ UNCHANGED <<scan, term, surface, mode, displays, pc, out, svc>>
    /\ UNCHANGED cursor
    /\ UNCHANGED <<lvars, xvars>>

\* ProgressDisplay.__init__, lines 448-451
Construct ==
    /\ Ready
    /\ \E d \in Displays :
          /\ disp[d].phase = "none"
          /\ \A e \in Displays : e < d => disp[e].phase # "none"
          /\ displays' = Append(displays, d)
          /\ disp' = [disp EXCEPT ![d] =
                         [NoDisplay EXCEPT !.phase = "constructing",
                                           !.worker_count = scan.worker_count]]
          /\ pc' = [Idle EXCEPT !.op = "init", !.d = d, !.at = "setup"]
    /\ out' = out
    /\ UNCHANGED <<scan, term, winch, surface, mode, svc>>
    /\ UNCHANGED cursor
    /\ UNCHANGED <<lvars, xvars>>

\* ProgressDisplay._setup_curses and _initialize_content.  No handler
\* surrounds them: an error leaves __init__ as it is raised.
Setup ==
    /\ pc.op = "init" /\ pc.at = "setup"
    /\ mode' = "curses"
    /\ surface' = term
    /\ \E failAt \in FailPoints, renderFails \in BOOLEAN :
        \E r \in {position(InitialLayout(term, disp[pc.d].worker_count,
                                         scan.banner),
                           InitialBoxes(disp[pc.d].worker_count, scan.banner),
                           failAt)} :
           LET exc == IF r.err # NoError THEN r.err
                      ELSE IF renderFails THEN CursesError ELSE NoError
           IN /\ disp' = [disp EXCEPT ![pc.d] =
                    IF exc # NoError
                    THEN [@ EXCEPT !.phase = "broken", !.terminal_size = term,
                                   !.boxes = r.boxes]
                    ELSE [@ EXCEPT !.phase = "active", !.terminal_size = term,
                                   !.layout = r.layout,
                                   !.boxes = update_content(r.layout, r.boxes)]]
              /\ out' = [NoOutcome EXCEPT !.op = "init", !.d = pc.d,
                                          !.exc = exc]
    /\ pc' = Idle
    /\ UNCHANGED <<scan, term, winch, displays, svc>>
    /\ cursor' = 0
    /\ UNCHANGED <<lvars, xvars>>

\* ProgressDisplay.end, called by the owner of a display
End ==
    /\ Ready
    /\ \E d \in Displays :
          /\ disp[d].phase \in {"active", "broken", "failed", "ended"}
          /\ \E w \in {end(World, d)} :
                /\ mode' = w.mode /\ displays' = w.displays /\ disp' = w.disp
                /\ out' = [NoOutcome EXCEPT !.op = "end", !.d = d,
                                            !.exc = w.err]
    /\ UNCHANGED <<scan, term, winch, surface, pc, svc>>
    /\ cursor' = 0
    /\ UNCHANGED <<lvars, xvars>>

\* reset_terminal, called by the process's interrupt and teardown path
ResetTerminal ==
    /\ Ready
    /\ \E w \in {reset_terminal(World)} :
          /\ mode' = w.mode /\ displays' = w.displays /\ disp' = w.disp
          /\ out' = [NoOutcome EXCEPT !.op = "reset_terminal", !.exc = w.err]
    /\ UNCHANGED <<scan, term, winch, surface, pc, svc>>
    /\ cursor' = 0
    /\ UNCHANGED <<lvars, xvars>>

\* The except clauses of handle_update and _resize_if_necessary up to their
\* raise: reset_terminal() runs on the objects as the failed step left them
Teardown(dd, exc, msg) ==
    \E w \in {reset_terminal([World EXCEPT !.disp = dd])} :
       /\ mode' = w.mode /\ displays' = w.displays /\ disp' = w.disp
       /\ pc' = [pc EXCEPT !.at = "raise", !.exc = exc, !.msg = msg,
                           !.key = NoKey]

ResizeFailed == "Failed to adjust progress output to new terminal size"
RenderFailed == "Rendering progress update failed"

\* ProgressDisplay.handle_update is called
HandleUpdate ==
    /\ Ready
    /\ \E d \in Displays :
          /\ Live(d)
          /\ pc' = [Idle EXCEPT !.op = "handle_update", !.d = d,
                                !.at = "resize_if_necessary"]
    /\ out' = out
    /\ UNCHANGED <<scan, term, winch, surface, mode, displays, disp, svc>>
    /\ UNCHANGED cursor
    /\ UNCHANGED <<lvars, xvars>>

\* _resize_if_necessary, line 604, and lines 589-593 of resize: measure the
\* terminal, record the size, reflow first when it is narrower
ResizeMeasure ==
    /\ pc.at = "resize_if_necessary"
    /\ LET D == disp[pc.d]
           size == term
           sm == smaller(size, D.terminal_size)
           D1 == [D EXCEPT !.terminal_size = size]
           begun == [d |-> pc.d, old_columns |-> D.terminal_size.columns,
                     new_columns |-> size.columns, trace |-> <<>>,
                     fitted |-> /\ D.layout.lines <= surface.lines
                                /\ D.layout.cols <= surface.columns,
                     complete |-> FALSE]
       IN IF ~D.pending_resize
          THEN /\ pc' = [pc EXCEPT !.at = After(pc.op), !.resized = FALSE,
                                   !.key = NoKey]
               /\ UNCHANGED <<mode, displays, disp, svc>>
          ELSE IF ~sm
          THEN /\ pc' = [pc EXCEPT !.at = "surface", !.size = size,
                                   !.smaller = FALSE, !.key = NoKey]
               /\ disp' = [disp EXCEPT ![pc.d] = D1]
               /\ svc' = begun
               /\ UNCHANGED <<mode, displays>>
          ELSE \E failAt \in FailPoints :
               \E r \in {resize(D.layout, D.boxes, size.lines, size.columns,
                                failAt)} :
                  /\ svc' = [begun EXCEPT !.trace = <<"reflow">>]
                  /\ IF r.err # NoError
                     THEN Teardown([disp EXCEPT ![pc.d] =
                                       [D1 EXCEPT !.layout = r.layout,
                                                  !.boxes = r.boxes]],
                                   r.err, ResizeFailed)
                     ELSE /\ pc' = [pc EXCEPT !.at = "surface", !.size = size,
                                              !.smaller = TRUE,
                                              !.key = NoKey]
                          /\ disp' = [disp EXCEPT ![pc.d] =
                                         [D1 EXCEPT !.layout = r.layout,
                                                    !.boxes = r.boxes]]
                          /\ UNCHANGED <<mode, displays>>
    /\ UNCHANGED <<scan, term, winch, surface, out>>
    /\ cursor' = IF pc'.at = "raise" THEN 0 ELSE cursor
    /\ UNCHANGED <<lvars, xvars>>

\* Lines 594-597 of resize: curses.resizeterm, erase, refresh, stdscr.resize
ResizeSurface ==
    /\ pc.at = "surface"
    /\ svc' = [svc EXCEPT !.trace = Append(@, "surface")]
    /\ \E fails \in BOOLEAN :
          IF fails
          THEN /\ Teardown(disp, CursesError, ResizeFailed)
               /\ UNCHANGED surface
          ELSE /\ surface' = pc.size
               /\ mode' = "curses"
               /\ pc' = [pc EXCEPT !.at = "reflow_after"]
               /\ UNCHANGED <<displays, disp>>
    /\ UNCHANGED <<scan, term, winch, out>>
    /\ cursor' = 0
    /\ UNCHANGED <<lvars, xvars>>

\* Lines 598-601 of resize and lines 608-609 of _resize_if_necessary: reflow
\* now unless it was done first, render everything, clear the flag
ResizeFinish ==
    /\ pc.at = "reflow_after"
    /\ LET D == disp[pc.d]
       IN \E failAt \in FailPoints, renderFails \in BOOLEAN :
          \E r \in {IF pc.smaller
                    THEN [layout |-> D.layout, boxes |-> D.boxes,
                          err |-> NoError]
                    ELSE resize(D.layout, D.boxes, pc.size.lines,
                                pc.size.columns, failAt)} :
             LET D1 == [D EXCEPT !.layout = r.layout, !.boxes = r.boxes]
                 steps == IF pc.smaller THEN svc.trace
                          ELSE Append(svc.trace, "reflow")
             IN IF r.err # NoError
                THEN /\ Teardown([disp EXCEPT ![pc.d] = D1], r.err,
                                 ResizeFailed)
                     /\ svc' = [svc EXCEPT !.trace = steps]
                ELSE IF renderFails
                THEN /\ Teardown([disp EXCEPT ![pc.d] = D1], CursesError,
                                 ResizeFailed)
                     /\ svc' = [svc EXCEPT !.trace = Append(steps, "render")]
                ELSE /\ disp' = [disp EXCEPT ![pc.d] =
                           [D1 EXCEPT !.boxes = update_content(r.layout,
                                                               r.boxes),
                                      !.pending_resize = FALSE]]
                     /\ mode' = "curses"
                     /\ pc' = [pc EXCEPT !.at = After(pc.op),
                                         !.resized = TRUE]
                     /\ svc' = [svc EXCEPT !.trace = Append(steps, "render"),
                                           !.complete = TRUE]
                     /\ UNCHANGED displays
    /\ UNCHANGED <<scan, term, winch, surface, out>>
    /\ cursor' = IF pc'.at = "raise" THEN 0 ELSE cursor
    /\ UNCHANGED <<lvars, xvars>>

\* `raise ProgressException(...) from e`, lines 583 and 612-614
Raise ==
    /\ pc.at = "raise"
    /\ out' = [op |-> pc.op, d |-> pc.d, exc |-> ProgressError,
               cause |-> pc.exc, msg |-> pc.msg, key |-> NoKey]
    /\ disp' = [disp EXCEPT ![pc.d].phase =
                    IF @ = "ended" THEN @ ELSE "failed"]
    /\ pc' = Idle
    /\ UNCHANGED <<scan, term, winch, surface, mode, displays, svc>>
    /\ UNCHANGED cursor
    /\ UNCHANGED <<lvars, xvars>>

\* Lines 578-583 of handle_update: _display_metrics and refresh
DisplayMetrics ==
    /\ pc.op = "handle_update" /\ pc.at = "metrics"
    /\ \E fails \in BOOLEAN :
          IF fails
          THEN /\ Teardown(disp, CursesError, RenderFailed)
               /\ UNCHANGED out
          ELSE /\ disp' = [disp EXCEPT ![pc.d].boxes =
                              update_content(disp[pc.d].layout, @)]
               /\ mode' = "curses"
               /\ pc' = Idle
               /\ out' = [NoOutcome EXCEPT !.op = "handle_update",
                                           !.d = pc.d]
               /\ UNCHANGED displays
    /\ UNCHANGED <<scan, term, winch, surface, svc>>
    /\ cursor' = IF pc'.at = "raise" THEN 0 ELSE cursor
    /\ UNCHANGED <<lvars, xvars>>

\* ProgressDisplay.end_on_input is called, lines 477-478
EndOnInput ==
    /\ Ready
    /\ \E d \in Displays :
          /\ Live(d)
          /\ pc' = [Idle EXCEPT !.op = "end_on_input", !.d = d,
                                !.at = "poll"]
    /\ out' = out
    /\ UNCHANGED <<scan, term, winch, surface, mode, displays, disp, svc>>
    /\ UNCHANGED cursor
    /\ UNCHANGED <<lvars, xvars>>

\* Lines 480-482 and 486: getch; a real key leaves the loop for end()
Poll ==
    /\ pc.op = "end_on_input" /\ pc.at = "poll"
    /\ \E key \in Keys :
          IF real_key(key)
          THEN \E w \in {end(World, pc.d)} :
                  /\ mode' = w.mode /\ displays' = w.displays
                  /\ disp' = w.disp
                  /\ out' = [NoOutcome EXCEPT !.op = "end_on_input",
                                              !.d = pc.d, !.exc = w.err,
                                              !.key = key]
                  /\ pc' = Idle
                  /\ cursor' = 0
          ELSE /\ pc' = [pc EXCEPT !.at = "resize_if_necessary",
                                   !.resized = FALSE, !.key = key]
               /\ UNCHANGED <<mode, displays, disp, out, cursor>>
    /\ UNCHANGED <<scan, term, winch, surface, svc>>
    /\ UNCHANGED <<lvars, xvars>>

\* Lines 483-485: the cursor goes to the log's end after a resize; sleep.
\* pc.resized, the value _resize_if_necessary returned, is kept up to the
\* next getch; the record of the servicing is not.
Sleep ==
    /\ pc.op = "end_on_input" /\ pc.at = "sleep"
    /\ pc' = [pc EXCEPT !.at = "poll"]
    /\ svc' = NoService
    /\ IF pc.resized
       THEN \E moved \in move_cursor_to_log_end(disp[pc.d], surface) :
               cursor' = IF moved THEN pc.d ELSE cursor
       ELSE UNCHANGED cursor
    /\ UNCHANGED <<scan, term, winch, surface, mode, displays, disp, out>>
    /\ UNCHANGED <<lvars, xvars>>

\* LogBox.add_message through LogBoxHandler.emit or LogBoxStream.write,
\* and scan_finished_handler, which adds its message the same way.  Nothing
\* catches an error of update().
AddMessage ==
    /\ Ready
    /\ \E d \in Displays, finished \in BOOLEAN, fails \in BOOLEAN :
          /\ Live(d)
          /\ Len(disp[d].boxes[LogIndex(disp[d])].messages) < MaxMessages
          /\ disp' = [disp EXCEPT ![d].boxes[LogIndex(disp[d])] =
                              update(add_message(@, <<"m">>))]
          /\ out' = [NoOutcome EXCEPT
                       !.op = IF finished THEN "scan_finished_handler"
                              ELSE "add_message",
                       !.d = d,
                       !.exc = IF fails THEN CursesError ELSE NoError]
          /\ IF finished /\ ~fails
             THEN \E moved \in move_cursor_to_log_end(disp[d], surface) :
                     cursor' = IF moved THEN d
                               ELSE IF cursor = d THEN 0 ELSE cursor
             ELSE cursor' = IF cursor = d THEN 0 ELSE cursor
    /\ UNCHANGED <<scan, term, winch, surface, mode, displays, pc, svc>>
    /\ UNCHANGED <<lvars, xvars>>

\* The caller has the result of its call
Return ==
    /\ pc = Idle /\ out # NoOutcome
    /\ out' = NoOutcome
    /\ svc' = NoService
    /\ disp' = [d \in Displays |-> Forget(disp[d])]
    /\ UNCHANGED <<scan, term, winch, surface, mode, displays, pc>>
    /\ UNCHANGED cursor
    /\ UNCHANGED <<lvars, xvars>>

Next ==
    \/ TermResize \/ Sigwinch
    \/ Construct \/ Setup \/ End \/ ResetTerminal
    \/ HandleUpdate \/ ResizeMeasure \/ ResizeSurface \/ ResizeFinish
    \/ Raise \/ DisplayMetrics
    \/ EndOnInput \/ Poll \/ Sleep
    \/ AddMessage \/ Return

Spec == Init /\ [][Next]_vars

(***************************************************************************)
(* Floating point.  A non-negative float is m * 2^e with m below           *)
(* 2^MantissaBits; every operation rounds to nearest, ties to even, as     *)
(* IEEE 754 does.  A double has 53 bits; the model keeps the rounding and  *)
(* scales the width down.                                                  *)
(***************************************************************************)
MantissaBits == 4

RECURSIVE Pow2Rec(_)
Pow2Rec(n) == IF n = 0 THEN 1 ELSE 2 * Pow2Rec(n - 1)

Pow2Table == [n \in 0..(4 * MantissaBits) |-> Pow2Rec(n)]

Pow2(n) == Pow2Table[n]

Zero == [m |-> 0, e |-> 0]

Exponents == (0 - 3 * MantissaBits)..(3 * MantissaBits)

\* n / d as a significand at exponent k, rounded to nearest, ties to even
RoundAt(n, d, k) ==
    Only({Only({Only({IF m = Pow2(MantissaBits)
                      THEN [m |-> Pow2(MantissaBits - 1), e |-> k + 1]
                      ELSE [m |-> m, e |-> k] :
                      m \in {IF 2 * (N % D) < D THEN q
                             ELSE IF 2 * (N % D) > D THEN q + 1
                             ELSE q + (q % 2)}}) :
                q \in {N \div D}}) :
          N \in {n * Pow2(IF k < 0 THEN 0 - k ELSE 0)},
          D \in {d * Pow2(IF k > 0 THEN k ELSE 0)}})

\* The float nearest to n / d, for n > 0 and d > 0
RoundRat(n, d) ==
    Only({RoundAt(n, d, k) :
          k \in {j \in Exponents :
                   /\ Pow2(MantissaBits - 1) * d * Pow2(IF j > 0 THEN j ELSE 0)
                        <= n * Pow2(IF j < 0 THEN 0 - j ELSE 0)
                   /\ n * Pow2(IF j < 0 THEN 0 - j ELSE 0)
                        < Pow2(MantissaBits) * d * Pow2(IF j > 0 THEN j ELSE 0)}})

\* float(value) for an int value >= 0: what `value / elapsed_time` does to
\* its int operand first
float(value) == IF value = 0 THEN Zero ELSE RoundRat(value, 1)

\* a / b on floats, b > 0
truediv(a, b) ==
    IF a.m = 0 THEN Zero
    ELSE Only({[m |-> r.m, e |-> r.e + a.e - b.e] :
               r \in {RoundRat(a.m, b.m)}})

\* int(f) that rounds half up
intRound(f) ==
    IF f.e >= 0 THEN f.m * Pow2(f.e)
    ELSE (f.m + Pow2(0 - f.e - 1)) \div Pow2(0 - f.e)

\* int(f): truncation
int(f) == IF f.e >= 0 THEN f.m * Pow2(f.e) ELSE f.m \div Pow2(0 - f.e)

\* _compute_rate with integer division in exact arithmetic
compute_rateExact(value, elapsed_time) ==
    IF elapsed_time.m = 0 THEN 0
    ELSE IF elapsed_time.e >= 0
    THEN value \div (elapsed_time.m * Pow2(elapsed_time.e))
    ELSE (value * Pow2(0 - elapsed_time.e)) \div elapsed_time.m

\* ProgressDisplay._compute_rate
compute_rate(value, elapsed_time) ==
    IF elapsed_time.m > 0
    THEN int(truediv(float(value), elapsed_time))
    ELSE 0

(***************************************************************************)
(* SpecMetrics: one display's content is built and then updated; the       *)
(* inputs are the scan's worker count and banner, the terminal's size and  *)
(* the progress updates.                                                   *)
(***************************************************************************)
WorkerCounts == 0..(MaxWorkers + 1)
MetricTermSizes ==
    {[lines |-> 16, columns |-> 90], [lines |-> 24, columns |-> 80],
     [lines |-> 40, columns |-> 130]}
MetricBanners == Banners \cup {<<10, 30>>, <<3, 90>>}

\* elapsed_time: 0.0, 0.5, 0.75, 1.0, 2.0, 3.0
ElapsedTimes ==
    {Zero, [m |-> 1, e |-> 0 - 1], [m |-> 3, e |-> 0 - 2], [m |-> 1, e |-> 0],
     [m |-> 1, e |-> 1], [m |-> 3, e |-> 0]}

\* Counter values: small ones, and the ones around the first integer a
\* float cannot hold
Counts ==
    {0, 1, 3, 10, Pow2(MantissaBits) - 1, Pow2(MantissaBits),
     Pow2(MantissaBits) + 1, Pow2(MantissaBits) + 3}

Updates ==
    [elapsed_time : ElapsedTimes, counts : Counts,
     bytes : {0, Pow2(MantissaBits) + 1}, matches : {1}]

\* update.metrics.get_int_metric(name, worker_index)
get_int_metric(progress, name, worker_index) ==
    CASE name = "counts" -> progress.counts
      [] name = "bytes" -> progress.bytes
      [] name = "matches" -> progress.matches

Metric(label, value) == [label |-> label, value |-> value]

\* _get_metrics with the two rates first
get_metricsRatesFirst(progress, worker_index) ==
    LET file_count == get_int_metric(progress, "counts", worker_index)
        byte_count == get_int_metric(progress, "bytes", worker_index)
        match_count == get_int_metric(progress, "matches", worker_index)
    IN <<Metric("Files / Second",
                compute_rate(file_count, progress.elapsed_time)),
         Metric("Bytes / Second",
                compute_rate(byte_count, progress.elapsed_time)),
         Metric("Files Processed", file_count),
         Metric("Bytes Processed", byte_count),
         Metric("Matches Found", match_count)>>

\* ProgressDisplay._get_metrics
get_metrics(progress, worker_index) ==
    LET file_count == get_int_metric(progress, "counts", worker_index)
        byte_count == get_int_metric(progress, "bytes", worker_index)
        match_count == get_int_metric(progress, "matches", worker_index)
        file_rate == compute_rate(file_count, progress.elapsed_time)
        byte_rate == compute_rate(byte_count, progress.elapsed_time)
    IN <<Metric("Files Processed", file_count),
         Metric("Bytes Processed", byte_count),
         Metric("Matches Found", match_count),
         Metric("Files / Second", file_rate),
         Metric("Bytes / Second", byte_rate)>>

\* Lines 529-534 and 571-572: None (here -1) for the summary box, the
\* worker's index for the others
worker_index_of(index) == index - 1

\* Lines 529-534: 'Summary', f'Worker {index}'
title_of(index) == IF index = 0 THEN <<"Summary", 0>> ELSE <<"Worker", index>>

\* ProgressDisplay._initialize_metric_boxes: title and metrics of each box
initialize_metric_boxes(worker_count) ==
    [k \in 1..(worker_count + 1) |->
        [title |-> title_of(k - 1),
         metrics |-> get_metrics(NoUpdate, worker_index_of(k - 1))]]

\* ProgressDisplay._display_metrics: the boxes after box.metrics is assigned
display_metrics(boxes, worker_count, progress) ==
    [k \in 1..(worker_count + 1) |->
        [boxes[k] EXCEPT !.metrics =
            get_metrics(progress, worker_index_of(k - 1))]]

MInit ==
    /\ scan \in [worker_count : WorkerCounts, banner : MetricBanners]
    /\ term \in MetricTermSizes
    /\ winch = FALSE /\ surface = NoSize /\ mode = "normal"
    /\ displays = <<>> /\ disp = [d \in Displays |-> NoDisplay]
    /\ pc = Idle /\ out = NoOutcome /\ svc = NoService /\ cursor = 0
    /\ LParked /\ XParked

\* ProgressDisplay._initialize_content
MInitializeContent ==
    /\ lres.op = "init"
    /\ \E r \in {position(InitialLayout(term, scan.worker_count, scan.banner),
                          InitialBoxes(scan.worker_count, scan.banner), 0)} :
          /\ lay' = r.layout
          /\ bxs' = IF r.err = NoError THEN update_content(r.layout, r.boxes)
                    ELSE r.boxes
          /\ lres' = [op |-> "initialize_content", err |-> r.err,
                      repeat |-> FALSE]
    /\ mx' = initialize_metric_boxes(scan.worker_count)
    /\ UNCHANGED <<dvars, upd, drawn, added>>

\* ProgressDisplay._display_metrics(update)
MDisplayMetrics ==
    /\ lres.op \in {"initialize_content", "display_metrics"}
    /\ lres.err = NoError
    /\ \E progress \in Updates :
       \E shown \in {display_metrics(mx, scan.worker_count, progress)} :
          /\ mx' = shown
          /\ upd' = progress
          /\ bxs' = [i \in DOMAIN bxs |->
                       IF bxs[i].kind = "metric"
                       THEN update([bxs[i] EXCEPT !.metrics =
                                       Len(shown[1].metrics)])
                       ELSE bxs[i]]
    /\ lres' = [op |-> "display_metrics", err |-> NoError, repeat |-> FALSE]
    /\ UNCHANGED <<dvars, lay, drawn, added>>

MNext == MInitializeContent \/ MDisplayMetrics

SpecMetrics == MInit /\ [][MNext]_vars

(***************************************************************************)
(* Geometry of a placed box                                                *)
(***************************************************************************)
ContentBoxes(L) == {L.content[k] : k \in DOMAIN L.content} \ {Break}

Rect(b) ==
    [y |-> b.position[1], x |-> b.position[2],
     height |-> compute_size(b)[1], width |-> compute_size(b)[2]]

InBounds(r, lines, cols) ==
    /\ 0 <= r.x /\ r.x + r.width <= cols
    /\ 0 <= r.y /\ r.y + r.height <= lines

\* Two rectangles share a cell
Overlap(r, q) ==
    /\ r.width > 0 /\ r.height > 0 /\ q.width > 0 /\ q.height > 0
    /\ r.x < q.x + q.width /\ q.x < r.x + r.width
    /\ r.y < q.y + q.height /\ q.y < r.y + r.height

\* The least width a box asks of a row: its own width and the padding; a
\* LogBox takes the width the layout gives it and asks for none of its own
MinWidth(L, b) ==
    IF b.kind = "log" THEN L.padding ELSE compute_size(b)[2] + L.padding

RECURSIVE SummedMinRowWidth(_, _, _)
SummedMinRowWidth(L, B, k) ==
    IF k = 0 THEN 0
    ELSE SummedMinRowWidth(L, B, k - 1)
         + (IF L.content[k] = Break THEN 0 ELSE MinWidth(L, B[L.content[k]]))

WidthsFit == SummedMinRowWidth(lay, bxs, Len(lay.content)) <= lay.cols

Placed == lres.op \in {"position", "resize"}

AllInBounds ==
    \A i \in ContentBoxes(lay) :
       /\ bxs[i].position # <<>>
       /\ InBounds(Rect(bxs[i]), lay.lines, lay.cols)

\* C1 as stated: whenever the summed minimum row width is at most the
\* available columns, position() raises no sizing error and, once it has
\* returned, every box's rectangle lies within the layout's lines and
\* columns.  (A failure of a curses call is not held against the claim.)
C1_AsStated ==
    (Placed /\ WidthsFit) =>
        /\ lres.err \notin SizingErrors
        /\ lres.err = NoError => AllInBounds

\* C1 amended: whenever the summed minimum row width is at most the available
\* columns, position() never raises the column sizing error (what it can
\* still raise is a sizing error for lines or log space, or a curses
\* failure), and whenever it returns without raising every box's rectangle
\* satisfies 0 <= x, x + width <= cols, 0 <= y, y + height <= lines.
C1_InBoundsUnlessLinesShort ==
    (Placed /\ WidthsFit) =>
        /\ lres.err # InsufficientColumns
        /\ lres.err = NoError => AllInBounds

C1_Witness ==
    /\ lres.op = "position" /\ lres.err = NoError /\ WidthsFit
    /\ Cardinality(ContentBoxes(lay)) >= 3
    /\ \E i, j \in ContentBoxes(lay) :
          bxs[i].position[1] # bxs[j].position[1]

\* C2: after a successful position() or resize(lines, cols) no two distinct
\* boxes of the layout have rectangles that overlap.
C2_NoOverlap ==
    (Placed /\ lres.err = NoError) =>
        \A i, j \in ContentBoxes(lay) :
           i # j => ~Overlap(Rect(bxs[i]), Rect(bxs[j]))

C2_Witness ==
    /\ lres.op = "resize" /\ lres.err = NoError
    /\ \E i, j, k \in ContentBoxes(lay) :
          /\ i # j
          /\ bxs[i].kind = "metric" /\ bxs[j].kind = "metric"
          /\ bxs[i].position[1] = bxs[j].position[1]
          /\ bxs[k].position[1] > bxs[i].position[1]

\* C3: resize is idempotent: a resize(lines, cols) that succeeds right after
\* a successful resize to the same extents leaves every box (position, size,
\* the LogBox's columns and lines) and the layout (vertical cursor, max row
\* width) as they were.
C3_ResizeIdempotent ==
    [][(/\ lres.op = "resize" /\ lres.err = NoError
        /\ lres'.op = "resize" /\ lres'.err = NoError
        /\ lay'.lines = lay.lines /\ lay'.cols = lay.cols)
       => (lay' = lay /\ bxs' = bxs)]_vars

C3_Witness ==
    /\ lres.op = "resize" /\ lres.err = NoError /\ lres.repeat
    /\ \E i, j \in ContentBoxes(lay) :
          /\ bxs[i].kind = "log" /\ bxs[i].columns > 0
          /\ bxs[j].kind = "metric"

\* A box of fixed width that is wider than the layout has room for
TooWide(L, b) ==
    b.kind # "log" /\ compute_size(b)[2] + L.padding > L.cols

\* C12: a position() or resize() of a layout that holds a box whose required
\* width (width, border and padding) exceeds the columns raises, with
\* 'Insufficient columns available' when that box comes first, and the call
\* gives that box no position.
C12_TooWideRaises ==
    [][lres'.op \in {"position", "resize"}
       => \A i \in ContentBoxes(lay') :
             TooWide(lay', bxs[i])
             => /\ lres'.err # NoError
                /\ lay'.content[1] = i => lres'.err = InsufficientColumns
                /\ bxs'[i].position = bxs[i].position]_vars

C12_Witness ==
    /\ lres.op = "resize" /\ lres.err = InsufficientColumns
    /\ \E i, j \in ContentBoxes(lay) :
          /\ TooWide(lay, bxs[i]) /\ bxs[i].position # <<>>
          /\ ~TooWide(lay, bxs[j]) /\ bxs[j].kind = "banner"

\* The rows _position_row can be called with next: one or two boxes
NextRows(L) ==
    {<<i>> : i \in ContentBoxes(L)}
    \cup ({<<i, j>> : i, j \in ContentBoxes(L)}
          \ {<<i, i>> : i \in ContentBoxes(L)})

\* The first loop of _position_row over `row`
FillOf(L, B, row) ==
    FillRow(L, [boxes |-> B, positioned |-> <<>>, extra |-> <<>>,
                row_width |-> 0, unpadded_row_width |-> 0, row_height |-> 0,
                err |-> NoError], row)

\* C13: a _position_row pass whose row height, added to the vertical cursor,
\* exceeds the layout's lines raises 'Insufficient lines available', moves
\* no box of the row, creates no window and leaves the cursor where it was.
C13_TallRowRaises ==
    \A row \in NextRows(lay) :
       LET fill == FillOf(lay, bxs, row)
           r == PositionRow(lay, bxs, row, 0, 0)
       IN (fill.err = NoError
           /\ lay.current_line + fill.row_height > lay.lines)
          => /\ r.err = InsufficientLines
             /\ r.layout = lay
             /\ \A i \in DOMAIN bxs :
                   /\ r.boxes[i].position = bxs[i].position
                   /\ r.boxes[i].window = bxs[i].window

\* position() met such a row after it had placed an earlier one
C13_Witness ==
    /\ lres.op = "position" /\ lres.err = InsufficientLines
    /\ lay.current_line > 0
    /\ \E i, j \in ContentBoxes(lay) :
          bxs[i].position # <<>> /\ bxs[j].position = <<>>

\* C18: LogBox.resize_for_layout(properties) sets columns to
\* max_row_width - 2 and lines to lines - current_line - 2, so that the
\* bordered box is as high as the lines left below the cursor, and raises a
\* sizing error exactly when that leaves fewer than 3 lines; after a
\* position() or resize() that raised nothing every log box of the layout
\* has at least 3 lines and ends on the last line of the layout
C18_LogBoxSized ==
    /\ \A i \in DOMAIN bxs :
          bxs[i].kind = "log" =>
             \A properties \in {get_layout_properties(lay)} :
                \A r \in {resize_for_layout(bxs[i], properties)} :
                   /\ r.box.columns = properties.max_row_width - 2
                   /\ r.box.lines
                      = properties.lines - properties.current_line - 2
                   /\ compute_size(r.box)[1]
                      = properties.lines - properties.current_line
                   /\ r.err = IF r.box.lines < 3 THEN InsufficientLogSpace
                              ELSE NoError
    /\ (Placed /\ lres.err = NoError) =>
          \A i \in ContentBoxes(lay) :
             bxs[i].kind = "log" =>
                /\ bxs[i].lines >= 3
                /\ bxs[i].position # <<>>
                /\ bxs[i].position[1] + bxs[i].lines + 2 = lay.lines

\* A layout with a log box below another row was positioned, and the log
\* box could not be resized for the lines that are left now
C18_Witness ==
    /\ Placed /\ lres.err = NoError
    /\ \E i \in ContentBoxes(lay) :
          /\ bxs[i].kind = "log"
          /\ bxs[i].position # <<>> /\ bxs[i].position[1] > 0
          /\ bxs[i].columns > 0
          /\ resize_for_layout(bxs[i], get_layout_properties(lay)).err
             = InsufficientLogSpace

\* The boxes of the content list, in the order they were added
ContentRow(L) == SelectSeq(L.content, LAMBDA item : item # Break)

\* Two placed boxes share lines: boxes of one row do, being centred on the
\* row's height, and boxes of different rows never do
SameRow(a, b) ==
    /\ Rect(a).y < Rect(b).y + Rect(b).height
    /\ Rect(b).y < Rect(a).y + Rect(a).height

\* One row-fill pass over `row` kept the order: the boxes taken into the row
\* are the first of `row` and fit the columns with their padding, and the
\* first box left out did not fit
GreedyFill(L, row) ==
    \A fill \in {FillOf(L, bxs, row)} :
       fill.err = NoError =>
          /\ [k \in DOMAIN fill.positioned |-> fill.positioned[k][1]]
             \o fill.extra = row
          /\ (row # <<>> => fill.positioned # <<>>)
          /\ fill.row_width <= L.cols
          /\ fill.extra # <<>>
             => fill.row_width + compute_size(fill.boxes[fill.extra[1]])[2]
                + L.padding > L.cols

\* C22: a row-fill pass takes boxes into the row in their order while width
\* plus padding stays within the columns, and from the first box that does
\* not fit on leaves every box to the next row; after a position() or
\* resize() that raised nothing, a box added later is in a lower row or in
\* the same row further right
C22_GreedyInOrder ==
    /\ GreedyFill(lay, ContentRow(lay))
    /\ GreedyFill([lay EXCEPT !.current_line = 0], ContentRow(lay))
    /\ (Placed /\ lres.err = NoError) =>
          \A k, l \in DOMAIN ContentRow(lay) :
             k < l =>
                \A a \in {bxs[ContentRow(lay)[k]]}, b \in {bxs[ContentRow(lay)[l]]} :
                   \/ Rect(a).y + Rect(a).height <= Rect(b).y
                   \/ SameRow(a, b) /\ Rect(a).x + Rect(a).width <= Rect(b).x

\* Four boxes were placed; the third did not fit the first row, and the
\* fourth, which would have fitted it, is beside the third
C22_Witness ==
    /\ Placed /\ lres.err = NoError
    /\ Len(lay.content) = 4 /\ Len(ContentRow(lay)) = 4
    /\ SameRow(bxs[1], bxs[2]) /\ SameRow(bxs[3], bxs[4])
    /\ ~SameRow(bxs[1], bxs[3])
    /\ Rect(bxs[1]).width + Rect(bxs[2]).width + Rect(bxs[4]).width
       + 3 * lay.padding <= lay.cols

\* C23: after a position() or resize() that raised nothing, between two
\* boxes of one row there are at least `padding` columns
C23_GapAtLeastPadding ==
    (Placed /\ lres.err = NoError) =>
       \A k, l \in DOMAIN ContentRow(lay) :
          k < l =>
             \A a \in {bxs[ContentRow(lay)[k]]}, b \in {bxs[ContentRow(lay)[l]]} :
                SameRow(a, b) => Rect(b).x - (Rect(a).x + Rect(a).width) >= lay.padding

(***************************************************************************)
(* Claims on the ProgressDisplay controller                                *)
(***************************************************************************)
\* C4: at every intermediate point of resize servicing that began with the
\* layout inside the surface, the extents the layout was last reflowed
\* against do not exceed the surface's extents, in lines or in columns.
C4_LayoutWithinSurface ==
    (pc.at \in {"surface", "reflow_after"} /\ svc.fitted)
    => /\ disp[pc.d].layout.lines <= surface.lines
       /\ disp[pc.d].layout.cols <= surface.columns

\* The steps a servicing takes, by the widths it compares
ExpectedSteps(v) ==
    IF v.new_columns < v.old_columns
    THEN <<"reflow", "surface", "render">>
    ELSE <<"surface", "reflow", "render">>

IsPrefix(s, t) == Len(s) <= Len(t) /\ s = SubSeq(t, 1, Len(s))

\* C5: a servicing of a pending resize reflows once, before the surface is
\* resized when the measured terminal is narrower than the recorded size and
\* after it otherwise; a servicing that completes has resized the surface
\* and rendered last, and has cleared the flag's servicing; one that fails
\* has taken a prefix of those steps.
C5_ReflowOrder ==
    /\ svc.d # 0 => IsPrefix(svc.trace, ExpectedSteps(svc))
    /\ svc.complete => svc.trace = ExpectedSteps(svc)

C5_Witness ==
    /\ svc.complete /\ svc.new_columns < svc.old_columns
    /\ out.op = "handle_update" /\ out.exc = NoError
    /\ surface = disp[out.d].terminal_size

\* C6: when an error escapes construction, handle_update, end_on_input,
\* scan_finished_handler or add_message, the terminal is in normal mode.
C6_RestoredBeforeEscape ==
    (/\ out.op \in {"init", "handle_update", "end_on_input",
                    "scan_finished_handler", "add_message"}
     /\ out.exc # NoError)
    => mode = "normal"

\* C7: when rendering the metrics in handle_update or servicing a pending
\* resize fails, the terminal is in normal mode at the raise, and what is
\* raised is a ProgressException whose cause is the original error.
C7_RestoredThenRaised ==
    /\ pc.at = "raise" => mode = "normal" /\ pc.exc # NoError
    /\ (out.op \in {"handle_update", "end_on_input"} /\ out.exc # NoError)
       => /\ mode = "normal"
          /\ out.exc = ProgressError
          /\ out.cause \in SizingErrors \cup {MoveError, CursesError}
          /\ out.msg \in {ResizeFailed, RenderFailed}

C7_Witness ==
    /\ out.op = "handle_update" /\ out.exc = ProgressError
    /\ out.cause \in SizingErrors /\ out.msg = ResizeFailed
    /\ mode = "normal"

\* C8: after reset_terminal() returns, the registry is empty and no display
\* is live.
C8_RegistryEmptyAfterReset ==
    out.op = "reset_terminal"
    => displays = <<>> /\ \A d \in Displays : disp[d].phase # "active"

\* C9: the SIGWINCH handler sets pending_resize on every display of the
\* registry and changes nothing else: not the terminal, the surface, the
\* mode, the registry, the main flow's position, nor any other field of any
\* display.
C9_HandlerOnlyQueues ==
    [][(winch /\ ~winch')
       => /\ UNCHANGED <<scan, term, surface, mode, displays, pc, out, svc>>
          /\ \A d \in Displays :
                disp'[d] = IF InList(displays, d)
                           THEN [disp[d] EXCEPT !.pending_resize = TRUE]
                           ELSE disp[d]]_vars

\* The handler ran after the servicing under way measured the terminal
C9_Witness ==
    /\ pc.at = "surface" /\ term # pc.size /\ ~winch
    /\ Len(displays) = 2
    /\ \A d \in Displays : disp[d].pending_resize

\* C10: after end(), on a registered display or on one already ended, the
\* terminal is in normal mode and the display is not in the registry; the
\* only error end() raises is the ValueError of the second removal.
C10_EndLeavesNormal ==
    out.op = "end"
    => /\ mode = "normal"
       /\ ~InList(displays, out.d)
       /\ out.exc \in {NoError, "ValueError"}

C10_Witness ==
    /\ out.op = "end" /\ out.exc = "ValueError"
    /\ \E e \in Displays : Live(e)

\* The steps of end_on_input: a getch with what follows it at once, the
\* start of _resize_if_necessary, and the end of an idle tick
PollStep == pc.op = "end_on_input" /\ pc.at = "poll" /\ pc' # pc

ServiceStep ==
    pc.op = "end_on_input" /\ pc.at = "resize_if_necessary" /\ pc' # pc

TickEnd == pc.op = "end_on_input" /\ pc.at = "sleep" /\ pc'.at = "poll"

\* A getch either read a real key, and then end() has run and end_on_input
\* has returned, or it read nothing or KEY_RESIZE, and then nothing of the
\* display has changed and _resize_if_necessary is next
PollEndsOnlyOnKey ==
    PollStep =>
       \/ /\ pc' = Idle
          /\ out'.op = "end_on_input" /\ out'.d = pc.d
          /\ out'.key \notin {NoKey, "KEY_RESIZE"}
          /\ disp'[pc.d].phase = "ended" /\ ~InList(displays', pc.d)
          /\ mode' = "normal"
       \/ /\ pc'.at = "resize_if_necessary"
          /\ pc'.key \in {NoKey, "KEY_RESIZE"}
          /\ disp' = disp /\ displays' = displays /\ mode' = mode
          /\ out' = out

\* While end_on_input runs, its display is ended only by the end() after a
\* real key or by the reset_terminal() of a failed resize servicing
LeavesOnlyByKeyOrFailure ==
    (pc.op = "end_on_input" /\ Live(pc.d) /\ disp'[pc.d].phase = "ended")
       => \/ PollStep /\ out'.key \notin {NoKey, "KEY_RESIZE"}
          \/ pc'.at = "raise" /\ pc'.msg = ResizeFailed

\* An idle tick starts servicing a pending resize, and goes on to sleep
\* without one
TickServicesResize ==
    ServiceStep =>
       IF disp[pc.d].pending_resize
       THEN /\ pc'.at \in {"surface", "raise"}
            /\ svc'.d = pc.d /\ svc'.new_columns = term.columns
       ELSE pc'.at = "sleep" /\ ~pc'.resized /\ disp' = disp

\* C11 as stated: every idle tick ends with the cursor on the end of the log
C11_AsStated ==
    [][/\ PollEndsOnlyOnKey /\ LeavesOnlyByKeyOrFailure /\ TickServicesResize
       /\ TickEnd => cursor' = pc.d]_vars

\* C11: end_on_input ends the display only after getch returned a real key,
\* and does so on the first one; a getch that returned nothing or KEY_RESIZE
\* changes nothing of the display; the idle tick after it services a pending
\* resize, and when it has serviced one it ends with the cursor on the end of
\* the log, and otherwise leaves the cursor where it was
C11_EndsOnKeyOnly ==
    [][/\ PollEndsOnlyOnKey /\ LeavesOnlyByKeyOrFailure /\ TickServicesResize
       /\ TickEnd => IF pc.resized THEN cursor' = pc.d
                     ELSE cursor' = cursor]_vars

\* end_on_input is polling again after an idle tick that serviced a resize
\* and put the cursor back on the end of the log
C11_Witness ==
    /\ pc.op = "end_on_input" /\ pc.at = "poll"
    /\ pc.resized
    /\ cursor = pc.d

\* C21: no resize notification is lost: when every SIGWINCH has been
\* delivered and the main control flow is between two calls, a live display
\* whose pending_resize is false has a layout of the terminal's size
C21_NoResizeLost ==
    \A d \in Displays :
       (/\ pc = Idle /\ ~winch
        /\ Live(d) /\ ~disp[d].pending_resize)
       => /\ disp[d].layout.lines = term.lines
          /\ disp[d].layout.cols = term.columns

(***************************************************************************)
(* Claims on the display's content                                         *)
(***************************************************************************)
\* The content of worker_count = 2 with a 10-row banner, laid out
C14Scenario ==
    /\ lres.op = "initialize_content"
    /\ scan.worker_count = 2
    /\ scan.banner # <<>> /\ scan.banner[1] = 10

\* The same scenario with metric boxes of ten rows, border included, three
\* to a row: banner, break, three boxes, break, log
TenRowScenario ==
    LET items == <<1, Break, 2, 3, 4, Break, 5>>
    IN position([BoxLayout(24, 80, METRICS_PADDING)
                   EXCEPT !.content = items, !.unpositioned = items],
                <<BannerBox(10, 30), MetricBox(8), MetricBox(8), MetricBox(8),
                  LogBox(10, 5, 0)>>, 0)

\* C14 as stated: on 24 lines x 80 columns the scenario lays out without an
\* error and every box ends within the 24 lines.
C14_AsStated ==
    (C14Scenario /\ term = [lines |-> 24, columns |-> 80])
    => lres.err = NoError /\ AllInBounds

\* C14: on 24 lines x 80 columns the scenario raises a sizing error:
\* 'Insufficient lines available' with the boxes ProgressDisplay builds, and
\* 'Insufficient space available to display log messages' with ten-row metric
\* boxes; on 40 lines x 130 columns it lays out, every box within the lines.
C14_ScenarioRaises ==
    /\ (C14Scenario /\ term = [lines |-> 24, columns |-> 80])
       => /\ lres.err = InsufficientLines
          /\ TenRowScenario.err = InsufficientLogSpace
    /\ (C14Scenario /\ term = [lines |-> 40, columns |-> 130])
       => lres.err = NoError /\ AllInBounds

C14_Witness ==
    /\ C14Scenario /\ term = [lines |-> 24, columns |-> 80]
    /\ lres.err = InsufficientLines
    /\ \E i \in DOMAIN bxs : bxs[i].kind = "banner" /\ bxs[i].position # <<>>

\* The metric boxes of bxs, in layout order
MetricBoxIndices == {i \in DOMAIN bxs : bxs[i].kind = "metric"}

Labels(metrics) == [j \in DOMAIN metrics |-> metrics[j].label]

\* C19: the display has worker_count + 1 metric boxes, the summary first and
\* the workers after it in index order, placed before the log box; at
\* construction and after every _display_metrics each holds the 5 metrics
\* Files Processed, Bytes Processed, Matches Found, Files / Second,
\* Bytes / Second, in that order.
C19_MetricBoxes ==
    lres.op # "init"
    => /\ Len(mx) = scan.worker_count + 1
       /\ Cardinality(MetricBoxIndices) = scan.worker_count + 1
       /\ \A i \in MetricBoxIndices :
             /\ bxs[i].metrics = METRICS_COUNT
             /\ i < Len(bxs) /\ bxs[Len(bxs)].kind = "log"
       /\ \A k \in DOMAIN mx :
             /\ mx[k].title = IF k = 1 THEN <<"Summary", 0>>
                              ELSE <<"Worker", k - 1>>
             /\ Len(mx[k].metrics) = METRICS_COUNT
             /\ Labels(mx[k].metrics) = MetricLabels

C19_Witness ==
    /\ lres.op = "display_metrics" /\ scan.worker_count = 2
    /\ upd.counts > 0 /\ upd.elapsed_time.m > 0
    /\ mx[3].metrics[1].value = upd.counts

\* The two rates every metric box shows agree with f(count, elapsed_time)
RatesAre(f(_, _)) ==
    \A k \in DOMAIN mx :
       /\ mx[k].metrics[4].value = f(upd.counts, upd.elapsed_time)
       /\ mx[k].metrics[5].value = f(upd.bytes, upd.elapsed_time)

\* count / elapsed_time, as the pair <<numerator, denominator>>
Quotient(count, t) ==
    IF t.e >= 0 THEN <<count, t.m * Pow2(t.e)>>
    ELSE <<count * Pow2(0 - t.e), t.m>>

\* The float f is exactly n / d
IsExactly(f, n, d) ==
    IF f.e >= 0 THEN f.m * Pow2(f.e) * d = n
    ELSE f.m * d = n * Pow2(0 - f.e)

Representable(count, t) ==
    /\ IsExactly(float(count), count, 1)
    /\ IsExactly(truediv(float(count), t), Quotient(count, t)[1],
                 Quotient(count, t)[2])

RateWithin(count, t, rate) ==
    /\ t.m = 0 => rate = 0
    /\ (t.m > 0 /\ Representable(count, t))
       => rate = compute_rateExact(count, t)
    /\ (t.m > 0 /\ count < Pow2(MantissaBits))
       => /\ compute_rateExact(count, t) <= rate
          /\ rate <= compute_rateExact(count, t) + 1

MaxAdds == 3

\* LogBox(columns, lines, max_messages): the constructor's arguments
LogColumns == {2, 3}
LogLines == {1, 2, 4}
MaxMessagesArgs == {0 - 1, 0, 1, 2}

\* The messages passed to add_message
Messages ==
    {<<>>, <<"a">>, <<"a", "b", "c">>, <<"d", "^", "e", "f", "g", "h">>}

\* The LayoutProperties BoxLayout hands to resize_for_layout
LogProperties ==
    [lines : {8}, current_line : {2, 4, 7}, max_row_width : {4, 5}]

\* the messages' lines in the wrong order
RECURSIVE wrapReversed(_, _, _)
wrapReversed(message, columns, remaining) ==
    IF Len(message) = 0 \/ remaining = 0 THEN <<>>
    ELSE wrapReversed(SubSeq(message, columns + 1, Len(message)), columns,
                      remaining - 1)
         \o <<SubSeq(message, 1, IF columns < Len(message) THEN columns
                                 ELSE Len(message))>>

\* LogBox._map_messages_to_lines, the while loop: message_lines, cut from
\* the front of `message` while lines remain
RECURSIVE wrap(_, _, _)
wrap(message, columns, remaining) ==
    IF Len(message) = 0 \/ remaining = 0 THEN <<>>
    ELSE <<SubSeq(message, 1, IF columns < Len(message) THEN columns
                              ELSE Len(message))>>
         \o wrap(SubSeq(message, columns + 1, Len(message)), columns,
                 remaining - 1)

\* LogBox._map_messages_to_lines, the for loop over reversed(self.messages)
\* from message i down: each message's lines go in front of the newer ones
RECURSIVE map_from(_, _, _, _)
map_from(messages, i, columns, remaining_lines) ==
    IF i = 0 \/ remaining_lines = 0 THEN <<>>
    ELSE Only({map_from(messages, i - 1, columns,
                        remaining_lines - Len(message_lines))
               \o message_lines :
               message_lines \in {wrap(messages[i], columns, remaining_lines)}})

\* LogBox._map_messages_to_lines for a box of lines >= 0
map_messages_to_lines(b) ==
    map_from(b.messages, Len(b.messages), b.columns, b.lines)

\* The characters of a sequence of lines or messages, in order
RECURSIVE Concat(_)
Concat(lines) ==
    IF lines = <<>> THEN <<>> ELSE Head(lines) \o Concat(Tail(lines))

\* What nothing has drawn yet
NothingDrawn ==
    [lines |-> <<>>, written |-> 0, cursor_offset |-> <<>>, clipped |-> FALSE]

\* LogBox.draw_content as called by Box.render: the lines it had to draw,
\* how many of them addstr accepted before an exception ended the loop,
\* and self.cursor_offset.  With lines < 0, deque(maxlen=self.lines) raises
\* and render ignores it: nothing is written, cursor_offset is not assigned.
\* `clipped` is history: some draw so far left characters of the deque out.
draw_lines(b, lines, written, before) ==
    [lines |-> lines,
     written |-> written,
     cursor_offset |->
        IF lines = <<>> THEN <<1, 0>>
        ELSE IF written < Len(lines)
             THEN <<1 + written, Len(lines[written + 1])>>
             ELSE <<Len(lines), Len(lines[Len(lines)])>>,
     clipped |-> before.clipped \/ Concat(lines) # Concat(b.messages)]

draw_content(b, accepted, before) ==
    IF b.lines < 0
    THEN [before EXCEPT !.lines = <<>>, !.written = 0,
                        !.clipped = @ \/ Concat(b.messages) # <<>>]
    ELSE Only({draw_lines(b, lines,
                          IF accepted < Len(lines) THEN accepted ELSE Len(lines),
                          before) :
               lines \in {map_messages_to_lines(b)}})

LogInit ==
    /\ \E columns \in LogColumns, lines \in LogLines,
          max_messages \in MaxMessagesArgs :
          bxs = <<LogBox(columns, lines, max_messages)>>
    /\ lay = BoxLayout(0, 0, 0)
    /\ lres = [op |-> "init", err |-> NoError, repeat |-> FALSE]
    /\ mx = <<>> /\ upd = NoUpdate
    /\ drawn = NothingDrawn /\ added = <<>>
    /\ DParked

\* LogBox.add_message(message)
LogAddMessage ==
    /\ Len(added) < MaxAdds
    /\ \E message \in Messages :
          /\ added' = Append(added, message)
          /\ \E b \in {update(add_message(bxs[1], message))} :
                /\ bxs' = <<b>>
                /\ \E accepted \in {0, b.lines} :
                      drawn' = draw_content(b, accepted, drawn)
    /\ lres' = [lres EXCEPT !.op = "add_message", !.err = NoError]
    /\ UNCHANGED <<dvars, lay, mx, upd>>

\* LogBox.update(), as BoxLayout.update_content and Box.resize call it
LogRender ==
    /\ \E b \in {update(bxs[1])} :
          /\ bxs' = <<b>>
          /\ \E accepted \in {0, b.lines} :
                drawn' = draw_content(b, accepted, drawn)
    /\ lres' = [lres EXCEPT !.op = "render", !.err = NoError]
    /\ UNCHANGED <<dvars, lay, mx, upd, added>>

\* LogBox.resize_for_layout(properties)
LogResizeForLayout ==
    /\ \E properties \in LogProperties :
          \E r \in {resize_for_layout(bxs[1], properties)} :
             /\ bxs' = <<r.box>>
             /\ lres' = [lres EXCEPT !.op = "resize_for_layout", !.err = r.err]
    /\ UNCHANGED <<dvars, lay, mx, upd, drawn, added>>

LogNext == LogAddMessage \/ LogRender \/ LogResizeForLayout

SpecLog == LogInit /\ [][LogNext]_vars

(***************************************************************************)
(* Claims about the LogBox                                                 *)
(***************************************************************************)
\* the last n elements of s
LastN(s, n) == IF Len(s) <= n THEN s ELSE SubSeq(s, Len(s) - n + 1, Len(s))

Filtered(s) == [i \in DOMAIN s |-> filter_control_characters(s[i])]

Ceil(L, C) == (L + C - 1) \div C

RECURSIVE LinesNeeded(_, _)
LinesNeeded(messages, columns) ==
    IF messages = <<>> THEN 0
    ELSE Ceil(Len(Head(messages)), columns) + LinesNeeded(Tail(messages), columns)

\* C15: after any sequence of add_message calls on a LogBox of capacity
\* N > 0 the deque holds at most N messages, and they are the N most recently
\* added ones (all of them when fewer were added), in the order added
C15_KeepsMostRecent ==
    bxs[1].maxlen > 0 =>
        /\ Len(bxs[1].messages) <= bxs[1].maxlen
        /\ bxs[1].messages = LastN(Filtered(added), bxs[1].maxlen)

\* N + 1 different messages were pushed into a LogBox of capacity N
C15_Witness ==
    /\ bxs[1].maxlen > 0
    /\ Len(added) = bxs[1].maxlen + 1
    /\ added[1] # added[2]
    /\ bxs[1].messages = Tail(Filtered(added))

\* The specification's example: LogBox(columns=10, lines=3) that received
\* 'abcdefghijklmno'
ExampleMessage ==
    <<"a", "b", "c", "d", "e", "f", "g", "h", "i", "j", "k", "l", "m", "n", "o">>

ExampleLines ==
    map_messages_to_lines(add_message(LogBox(10, 3, 0), ExampleMessage))

\* C16: a drawn LogBox of C > 0 columns whose newest message has length L
\* and whose lines are at least ceil(L / C) ends with exactly ceil(L / C)
\* lines for that message, each of at most C characters, that concatenate
\* to the message; a message of length 0 gives no line; the example wraps to
\* 'abcdefghij', 'klmno'
C16_WrapsIntoCeilLines ==
    /\ ExampleLines = <<SubSeq(ExampleMessage, 1, 10), SubSeq(ExampleMessage, 11, 15)>>
    /\ (/\ lres.op \in {"add_message", "render"}
        /\ bxs[1].messages # <<>>
        /\ bxs[1].columns > 0
        /\ bxs[1].lines >= Ceil(Len(bxs[1].messages[Len(bxs[1].messages)]),
                                bxs[1].columns))
       => LET message == bxs[1].messages[Len(bxs[1].messages)]
              k == Ceil(Len(message), bxs[1].columns)
              n == Len(drawn.lines)
          IN /\ n >= k
             /\ Concat(SubSeq(drawn.lines, n - k + 1, n)) = message
             /\ \A i \in (n - k + 1)..n : Len(drawn.lines[i]) <= bxs[1].columns
             /\ \A i \in (n - k + 1)..n : Len(drawn.lines[i]) > 0
             /\ (Len(bxs[1].messages) = 1 => n = k)

\* A message of more than one line was wrapped, and one of length 0
C16_Witness ==
    /\ lres.op = "add_message"
    /\ Len(bxs[1].messages) = 2
    /\ bxs[1].messages[1] = <<>>
    /\ Len(bxs[1].messages[2]) > bxs[1].columns
    /\ Len(drawn.lines) = Ceil(Len(bxs[1].messages[2]), bxs[1].columns)
    /\ Len(drawn.lines) > 1

\* Every stored message has all its lines among `lines`
AllShown(b, lines) ==
    /\ Len(lines) = LinesNeeded(b.messages, b.columns)
    /\ Concat(lines) = Concat(b.messages)

\* C17: drawing the LogBox and resizing it for the layout leave the message
\* deque as it was, and a draw of a box whose lines suffice for all stored
\* messages has every one of them to draw, whatever was left out before
C17_RenderKeepsMessages ==
    [][/\ lres'.op \in {"render", "resize_for_layout"}
          => bxs'[1].messages = bxs[1].messages
       /\ (/\ lres'.op = "render"
           /\ bxs'[1].columns > 0
           /\ bxs'[1].lines >= LinesNeeded(bxs'[1].messages, bxs'[1].columns))
          => AllShown(bxs'[1], drawn'.lines)]_vars

\* Two messages are stored and drawn in full, after a draw that left some
\* of their characters out
C17_Witness ==
    /\ lres.op = "render"
    /\ drawn.clipped
    /\ Len(bxs[1].messages) >= 2
    /\ LinesNeeded(bxs[1].messages, bxs[1].columns) \in 3..4
    /\ AllShown(bxs[1], drawn.lines)
    /\ drawn.written = Len(drawn.lines)

\* Every stored message wrapped in full, oldest first
RECURSIVE WrappedHistory(_, _)
WrappedHistory(messages, columns) ==
    IF messages = <<>> THEN <<>>
    ELSE wrap(Head(messages), columns, Len(Head(messages)))
         \o WrappedHistory(Tail(messages), columns)

\* C25: the lines a LogBox of C > 0 columns draws are at most its lines, and
\* they are the last lines of the stored messages wrapped in full, oldest
\* first: a suffix that ends with the last line of the newest message
C25_DrawsHistorySuffix ==
    (/\ lres.op \in {"add_message", "render"}
     /\ bxs[1].columns > 0 /\ bxs[1].lines >= 0)
    => /\ Len(drawn.lines) <= bxs[1].lines
       /\ drawn.lines
          = LastN(WrappedHistory(bxs[1].messages, bxs[1].columns), bxs[1].lines)

\* C24: after a layout that raised nothing, a box added after a row break
\* shares no line with a box added before that break
C24_BreakSeparatesRows ==
    (lres.op \in {"initialize_content", "display_metrics"}
     /\ lres.err = NoError)
    => \A k, b, l \in DOMAIN lay.content :
          (/\ k < b /\ b < l
           /\ lay.content[b] = Break
           /\ lay.content[k] # Break /\ lay.content[l] # Break)
          => ~SameRow(bxs[lay.content[k]], bxs[lay.content[l]])

====
